---- MODULE Spec2Model ----
(***************************************************************************)
(* Subscription synchronisation server (src/server.js and its earlier      *)
(* revisions src/unnamed/part_001, part_002): the Express handlers         *)
(*   POST /create-checkout-session, /check-subscription-status,            *)
(*   POST /cancel-subscription, /webhook                                   *)
(* against a Firestore `users` collection and the Stripe API.              *)
(*                                                                         *)
(* Every handler is an async function: it runs without interruption up to  *)
(* an `await`, and other requests run while it is suspended.  One action   *)
(* of the model is one such uninterrupted stretch together with the        *)
(* outcome of the call it awaited.                                         *)
(***************************************************************************)
EXTENDS Integers, Sequences, FiniteSets, TLC

\* ------------------------------------------------------------------ bounds
\* provider-side subscription changes (each one advances the provider clock)
MaxClock == 3
\* requests received by the server in one behaviour
MaxRequests == 2
\* requests that may be in flight at the same time
MaxInFlight == 2

Users == {"u1", "u2"}
Slots == 1..MaxInFlight

\* ------------------------------------------------------- JavaScript values
\* null in a field that otherwise holds an id or a date: no id or date is 0
Null == 0
\* a field that was never written (undefined)
Unset == -1
\* a falsy / missing request parameter
Missing == ""

\* every person has one e-mail address
EmailOf == [u1 |-> "u1@example.com", u2 |-> "u2@example.com"]

\* String.prototype.toLowerCase on the addresses a client may send
toLowerCase ==
  [e \in {EmailOf[u] : u \in Users} \cup {"U1@Example.com", Missing} |->
     IF e = "U1@Example.com" THEN "u1@example.com" ELSE e]

\* ------------------------------------------------------------ configuration
PRICE_IDS ==
  [monthly |-> "price_1QMtsECcFkjlkIFGAmSwTHbX",
   annual  |-> "price_1QMttrCcFkjlkIFGQ3sSV7I0"]

validPriceIds == {PRICE_IDS[k] : k \in DOMAIN PRICE_IDS}

\* process.env.STRIPE_WEBHOOK_SECRET
STRIPE_WEBHOOK_SECRET == "whsec_live"

\* price ids a client may send: the configured ones and one that is not
PriceInputs == {PRICE_IDS.monthly, "price_other", Missing}

\* ------------------------------------------------------------------- state
VARIABLES
  db,          \* Firestore users collection: userId -> subscription map of the document
  now,         \* Firestore: server time, advanced by every write
  customers,   \* Stripe: userId -> which customers exist for that person
  subs,        \* Stripe: userId -> the person's subscription object or NoSub
  sessions,    \* Stripe: checkout sessions created so far
  events,      \* Stripe: events emitted so far (deliverable in any order, repeatedly)
  clock,       \* Stripe: logical time of the last subscription change
  req,         \* the server's request slots: in flight, answered or idle
  nreq,        \* requests received so far
  quota,       \* requests the server receives in this run
  writes       \* history: the last two updates written to each record

vars == <<db, now, customers, subs, sessions, events, clock, req, nreq, quota, writes>>

\* a user without a document is not in the domain of db
UsersWithDoc == DOMAIN db

\* the persons of this run: those the provider may hold customers for and
\* whose ids and addresses clients send
People == DOMAIN customers

Emails == {EmailOf[u] : u \in People}
CancelEmails == Emails \cup {"U1@Example.com"}

\* The subscription map of a user document before this server ever wrote to it.
ZeroDoc ==
  [status |-> "none", tier |-> "basic", stripeSubscriptionId |-> Null,
   currentPeriodEnd |-> Null, cancelAtPeriodEnd |-> FALSE,
   pendingUpgrade |-> FALSE, checkoutSessionId |-> Null,
   endDate |-> Unset, lastUpdated |-> Unset, lastChecked |-> Unset,
   canceledAt |-> Unset]

\* new Date(seconds * 1000): the stored value is in milliseconds
DateOfSeconds(s) == s * 1000

\* --------------------------------------------------------------- Firestore
\* DocumentReference.update(fields): merges the fields into an existing
\* document and fails with NOT_FOUND when the document does not exist.
\* a snapshot read that reports every document as existing
DocExists_Always(u) == TRUE

DocExists(u) == u \in UsersWithDoc

\* admin.firestore.FieldValue.serverTimestamp(): a sentinel the server
\* replaces by its own time when it applies the write
serverTimestamp == "serverTimestamp"
TimestampFields == {"lastUpdated", "lastChecked", "canceledAt"}

Merge(doc, fields) ==
  [f \in DOMAIN doc |->
     IF f \notin DOMAIN fields THEN doc[f]
     ELSE IF f \in TimestampFields THEN now + 1
     ELSE fields[f]]

\* History of the store: the request that made each of the last two updates
\* of a record, the fields it sent and the document that resulted.
LastTwo(log) == IF Len(log) > 2 THEN Tail(log) ELSE log

Logged(u, r, fields) ==
  [writes EXCEPT ![u] =
     LastTwo(Append(@, [r |-> r, fields |-> fields, after |-> Merge(db[u], fields)]))]

\* the watermark of the update a record absorbed last (0 before any)
lastAppliedEventTimestamp(u) ==
  IF writes[u] = <<>> THEN 0 ELSE writes[u][Len(writes[u])].r.wm

\* ------------------------------------------------------------------ Stripe
NoMeta == [userId |-> Missing, firebaseUID |-> Missing]
MetaOf(u) == [userId |-> u, firebaseUID |-> u]

\* no subscription (an empty list from stripe.subscriptions.list)
NoSub ==
  [id |-> 0, status |-> "none", cancel_at_period_end |-> FALSE,
   current_period_end |-> 0, metadata |-> NoMeta, owner |-> "none", ver |-> 0]

\* the event slot of a request that is not a webhook
NoEvent == [type |-> "none", created |-> 0, object |-> NoSub]

\* stripe.webhooks.constructEvent: the signature is an HMAC of the payload
\* under the endpoint secret; it matches only for the same payload and key.
Sign(payload, key) == <<payload, key>>

\* a verification that looks at the payload only, whatever key signed it
constructEventOk_AnyKey(payload, sig, secret) == sig[1] = payload

constructEventOk(payload, sig, secret) == sig = Sign(payload, secret)

\* a payload the provider never emitted, sent by somebody without the secret
ForgedPayloads ==
  {[type |-> "customer.subscription.deleted", created |-> MaxClock + 1,
    object |-> [id |-> 0, status |-> "canceled", cancel_at_period_end |-> FALSE,
                current_period_end |-> 1, metadata |-> MetaOf(u),
                owner |-> "untagged", ver |-> MaxClock + 1]] : u \in People}

\* a verified event of a type the handler has no case for
OtherEvent ==
  [type |-> "invoice.paid", created |-> 0,
   object |-> [id |-> 0, status |-> "active", cancel_at_period_end |-> FALSE,
               current_period_end |-> 1, metadata |-> NoMeta,
               owner |-> "untagged", ver |-> 0]]

\* ---------------------------------------------------------------- requests
Idle ==
  [kind |-> "idle", pc |-> "idle", userId |-> Missing, email |-> Missing,
   priceId |-> Missing, event |-> NoEvent, sig |-> Sign(NoEvent, Missing),
   person |-> Missing, customer |-> "none", subscription |-> NoSub, session |-> 0,
   wm |-> 0, code |-> 0, body |-> [error |-> Missing],
   storeCalls |-> 0, providerCalls |-> 0, n |-> 0, peers |-> {}]

Free(i) == req[i].pc \in {"idle", "done"}

\* a new request takes the lowest free slot
FreeSlot(i) == Free(i) /\ \A j \in Slots : j < i => ~Free(j)

CanStart(i) == nreq < quota /\ FreeSlot(i)

\* A request as it arrives.  History: its number in the order of arrival and
\* the requests that are in flight at that moment.
Arrived ==
  [Idle EXCEPT !.n = nreq + 1,
               !.peers = {req[j].n : j \in {k \in Slots : ~Free(k)}}]

\* res.status(code).json(body): the request is answered
Respond(r, code, body) == [r EXCEPT !.pc = "done", !.code = code, !.body = body]

\* the server has started and has received nothing; P are the persons
Started(P) ==
  /\ now = 0
  /\ db \in UNION {[D -> {ZeroDoc}] : D \in SUBSET P}
  /\ customers \in [P -> {{}, {"tagged"}}]
  /\ subs = [u \in Users |-> NoSub]
  /\ sessions = {}
  /\ events = {}
  /\ clock = 0
  /\ req = [i \in Slots |-> Idle]
  /\ nreq = 0
  /\ writes = [u \in Users |-> <<>>]

\* one person uses the deployment
Init == Started({"u1"}) /\ quota = MaxRequests

\* one signed-up person, and one request more than the other runs have: a
\* checkout, the delivery of its event and a status check
InitConverge ==
  Started({"u1"}) /\ UsersWithDoc = {"u1"} /\ quota = MaxRequests + 1

\* two persons share the deployment, both signed up
InitShared == Started(Users) /\ UsersWithDoc = Users /\ quota = MaxRequests

\* a || b on strings
Or(a, b) == IF a # Missing THEN a ELSE b

\* ------------------------------------------------- the billing provider
\* Stripe is outside this repository: these actions are what it may do
\* between the server's calls.  Each subscription change advances the clock,
\* stamps the subscription and emits an event carrying a snapshot of it.
Emit(type, sub) == events \cup {[type |-> type, created |-> sub.ver, object |-> sub]}

\* a billing period lasts one tick of the provider clock
NewSub(owner, meta) ==
  [id |-> clock + 1, status |-> "active", cancel_at_period_end |-> FALSE,
   current_period_end |-> clock + 2, metadata |-> meta, owner |-> owner,
   ver |-> clock + 1]

CanSubscribe(u) == subs[u] = NoSub \/ subs[u].status = "canceled"

\* The customer pays a checkout session whose id the server returned to the
\* client.  Checkout (customer_email given) creates a customer that carries no
\* metadata, and the subscription gets the session's subscription_data.metadata.
CompleteCheckout ==
  \E s \in sessions :
    LET u == s.client_reference_id
        sub == NewSub("untagged", s.subscription_metadata) IN
    /\ clock < MaxClock
    /\ s.subscription = 0
    /\ s.returned
    /\ CanSubscribe(u)
    /\ customers' = [customers EXCEPT ![u] = @ \cup {"untagged"}]
    /\ subs' = [subs EXCEPT ![u] = sub]
    /\ sessions' = (sessions \ {s}) \cup {[s EXCEPT !.subscription = sub.id]}
    /\ events' = Emit("customer.subscription.created", sub)
    /\ clock' = clock + 1
    /\ UNCHANGED <<db, now, req, nreq, quota, writes>>

\* The customer pays a checkout session that an earlier revision of the
\* server created before this one was deployed: client_reference_id names the
\* user, the session had no subscription_data, the subscription no metadata.
LegacyCheckout ==
  \E u \in People :
    LET sub == NewSub("untagged", NoMeta)
        session == [id |-> Cardinality(sessions) + 1, client_reference_id |-> u,
                    customer_email |-> EmailOf[u], price |-> PRICE_IDS.monthly,
                    metadata |-> MetaOf(u), subscription_metadata |-> NoMeta,
                    subscription |-> sub.id, returned |-> TRUE] IN
    /\ clock < MaxClock
    /\ CanSubscribe(u)
    /\ customers' = [customers EXCEPT ![u] = @ \cup {"untagged"}]
    /\ subs' = [subs EXCEPT ![u] = sub]
    /\ sessions' = sessions \cup {session}
    /\ events' = Emit("customer.subscription.created", sub)
    /\ clock' = clock + 1
    /\ UNCHANGED <<db, now, req, nreq, quota, writes>>

\* A subscription created for a customer tagged with metadata.firebaseUID,
\* outside any checkout session of this server; its own metadata may or may
\* not name the user.
ProviderSubscribe ==
  \E u \in People, tagged \in BOOLEAN :
    LET sub == NewSub("tagged", IF tagged THEN MetaOf(u) ELSE NoMeta) IN
    /\ clock < MaxClock
    /\ "tagged" \in customers[u]
    /\ CanSubscribe(u)
    /\ subs' = [subs EXCEPT ![u] = sub]
    /\ events' = Emit("customer.subscription.created", sub)
    /\ clock' = clock + 1
    /\ UNCHANGED <<db, now, customers, sessions, req, nreq, quota, writes>>

\* what the provider may change on a live subscription: a renewal, a failed
\* payment, its recovery, and the (un)scheduling of a cancellation
Changed(sub, kind) ==
  IF kind = "renew"
  THEN [sub EXCEPT !.current_period_end = @ + 1, !.status = "active"]
  ELSE IF kind = "payment"
  THEN [sub EXCEPT !.status = IF @ = "active" THEN "past_due" ELSE "active"]
  ELSE [sub EXCEPT !.cancel_at_period_end = ~@]

ProviderUpdate ==
  \E u \in People, kind \in {"renew", "payment", "cancel_flag"} :
    /\ clock < MaxClock
    /\ subs[u] # NoSub
    /\ subs[u].status # "canceled"
    /\ LET sub == [Changed(subs[u], kind) EXCEPT !.ver = clock + 1] IN
       /\ subs' = [subs EXCEPT ![u] = sub]
       /\ events' = Emit("customer.subscription.updated", sub)
    /\ clock' = clock + 1
    /\ UNCHANGED <<db, now, customers, sessions, req, nreq, quota, writes>>

\* The subscription ends.
ProviderDelete ==
  \E u \in People :
    /\ clock < MaxClock
    /\ subs[u] # NoSub
    /\ subs[u].status # "canceled"
    /\ LET sub == [subs[u] EXCEPT !.status = "canceled", !.ver = clock + 1] IN
       /\ subs' = [subs EXCEPT ![u] = sub]
       /\ events' = Emit("customer.subscription.deleted", sub)
    /\ clock' = clock + 1
    /\ UNCHANGED <<db, now, customers, sessions, req, nreq, quota, writes>>

\* an upsert whose period end also depends on when the event is processed
SubscriptionUpsertFields_Clocked(subscription) ==
  [status |-> subscription.status,
   tier |-> "pro",
   stripeSubscriptionId |-> subscription.id,
   currentPeriodEnd |-> DateOfSeconds(subscription.current_period_end) + now,
   cancelAtPeriodEnd |-> subscription.cancel_at_period_end,
   lastUpdated |-> serverTimestamp,
   pendingUpgrade |-> FALSE]

\* ------------------------------------------------------- POST /webhook
\* the fields written for customer.subscription.created / .updated
SubscriptionUpsertFields(subscription) ==
  [status |-> subscription.status,
   tier |-> "pro",
   stripeSubscriptionId |-> subscription.id,
   currentPeriodEnd |-> DateOfSeconds(subscription.current_period_end),
   cancelAtPeriodEnd |-> subscription.cancel_at_period_end,
   lastUpdated |-> serverTimestamp,
   pendingUpgrade |-> FALSE]

\* a deletion that resets status and tier only
SubscriptionDeletedFields_StatusOnly ==
  [status |-> "inactive", tier |-> "basic", lastUpdated |-> serverTimestamp]

\* the fields written for customer.subscription.deleted
SubscriptionDeletedFields ==
  [status |-> "inactive",
   tier |-> "basic",
   stripeSubscriptionId |-> Null,
   currentPeriodEnd |-> Null,
   cancelAtPeriodEnd |-> FALSE,
   lastUpdated |-> serverTimestamp]

WebhookFields(event) ==
  IF event.type = "customer.subscription.deleted"
  THEN SubscriptionDeletedFields
  ELSE SubscriptionUpsertFields(event.object)

\* a switch whose subscription branch also takes every unlisted event type
IsUpsert_Unlisted(type) == type # "customer.subscription.deleted"

IsUpsert(type) ==
  type \in {"customer.subscription.created", "customer.subscription.updated"}

\* the webhook's answer once the signature was verified
WebhookAck(r, error) ==
  IF error = Missing
  THEN Respond(r, 200, [received |-> TRUE, error |-> Missing])
  ELSE Respond(r, 200, [received |-> TRUE, error |-> error])

NoUidError == "No Firebase UID found in subscription metadata"

\* a handler that books an event naming no user on a default account
WebhookAfterVerify_Default(r) ==
  LET event == r.event
      meta == event.object.metadata
      userId == Or(Or(meta.userId, meta.firebaseUID), CHOOSE u \in People : TRUE) IN
  IF IsUpsert(event.type) \/ event.type = "customer.subscription.deleted"
  THEN [r EXCEPT !.pc = "wh_write", !.userId = userId]
  ELSE WebhookAck(r, Missing)

\* a handler that gives up on an upsert whose metadata names no user,
\* without asking for the checkout session
WebhookAfterVerify_NoRecovery(r) ==
  LET event == r.event
      meta == event.object.metadata
      userId == IF IsUpsert(event.type) THEN Or(meta.userId, meta.firebaseUID)
                ELSE meta.firebaseUID IN
  IF IsUpsert(event.type) \/ event.type = "customer.subscription.deleted"
  THEN IF userId = Missing
       THEN WebhookAck(r, NoUidError)
       ELSE [r EXCEPT !.pc = "wh_write", !.userId = userId]
  ELSE WebhookAck(r, Missing)

\* From the arrival of the request to the first await: signature check,
\* switch on the event type, userId from the subscription's metadata.
WebhookAfterVerify(r) ==
  LET event == r.event
      meta == event.object.metadata IN
  IF IsUpsert(event.type)
  THEN LET userId == Or(meta.userId, meta.firebaseUID) IN
       IF userId = Missing
       THEN [r EXCEPT !.pc = "wh_sessions"]
       ELSE [r EXCEPT !.pc = "wh_write", !.userId = userId]
  ELSE IF event.type = "customer.subscription.deleted"
  THEN LET canceledUserId == meta.firebaseUID IN
       IF canceledUserId = Missing
       THEN WebhookAck(r, NoUidError)
       ELSE [r EXCEPT !.pc = "wh_write", !.userId = canceledUserId]
  ELSE WebhookAck(r, Missing)

WebhookReceive(r) ==
  IF ~constructEventOk(r.event, r.sig, STRIPE_WEBHOOK_SECRET)
  THEN Respond(r, 400, [error |-> "Webhook Error"])
  ELSE WebhookAfterVerify(r)

\* what may arrive: an event of the provider, signed by it, or a payload of
\* somebody who does not hold the endpoint secret
WebhookPayloads == events \cup {OtherEvent} \cup ForgedPayloads

WebhookRequest(payload) ==
  LET key == IF payload \in ForgedPayloads THEN "whsec_guess"
             ELSE STRIPE_WEBHOOK_SECRET IN
  [Arrived EXCEPT !.kind = "webhook", !.event = payload,
                  !.sig = Sign(payload, key), !.wm = payload.created]

\* the request takes slot i and runs to its first await, where it is r
WebhookArrival(i, r) ==
  /\ CanStart(i)
  /\ req' = [req EXCEPT ![i] = r]
  /\ nreq' = nreq + 1 /\ UNCHANGED quota
  /\ UNCHANGED <<db, now, customers, subs, sessions, events, clock, writes>>

WebhookStart ==
  \E i \in Slots, payload \in WebhookPayloads :
    WebhookArrival(i, WebhookReceive(WebhookRequest(payload)))

\* stripe.checkout.sessions.list({subscription, limit: 1}); a failure of the
\* call is caught and logged, and userId stays empty.
\* a listing that ignores the subscription filter
SessionsOf_All(subscriptionId) == {s \in sessions : s.subscription # 0}

\* stripe.checkout.sessions.list({subscription: subscription.id, limit: 1})
SessionsOf(subscriptionId) == {s \in sessions : s.subscription = subscriptionId}

WebhookSessions ==
  \E i \in Slots, fails \in BOOLEAN :
    LET r == req[i]
        found == SessionsOf(r.event.object.id)
        userId == IF fails \/ found = {} THEN Missing
                  ELSE (CHOOSE s \in found : TRUE).client_reference_id
        r1 == [r EXCEPT !.providerCalls = @ + 1] IN
    /\ r.pc = "wh_sessions"
    /\ req' = [req EXCEPT ![i] =
                 IF userId = Missing THEN WebhookAck(r1, NoUidError)
                 ELSE [r1 EXCEPT !.pc = "wh_write", !.userId = userId]]
    /\ UNCHANGED <<db, now, customers, subs, sessions, events, clock, nreq, quota, writes>>

\* await db.collection('users').doc(userId).update({...}), then the answer;
\* Failed is the handler's catch clause
StoreFailure == "store update failed"

Stored(r) == [r EXCEPT !.storeCalls = @ + 1]

\* the update of the request in slot i; failed is its answer when the update
\* throws (no such document, or the store is down)
WebhookWriteAt(i, pc, fails, failed) ==
  LET r == req[i]
      u == r.userId IN
  /\ r.pc = pc
  /\ IF DocExists(u) /\ ~fails
     THEN /\ db' = [db EXCEPT ![u] = Merge(@, WebhookFields(r.event))]
          /\ writes' = Logged(u, r, WebhookFields(r.event))
          /\ now' = now + 1
          /\ req' = [req EXCEPT ![i] = WebhookAck(Stored(r), Missing)]
     ELSE /\ req' = [req EXCEPT ![i] = failed]
          /\ UNCHANGED <<db, now, writes>>
  /\ UNCHANGED <<customers, subs, sessions, events, clock, nreq, quota>>

WebhookWrite ==
  \E i \in Slots, fails \in BOOLEAN :
    WebhookWriteAt(i, "wh_write", fails, WebhookAck(Stored(req[i]), StoreFailure))

\* ------------------------------------- POST /create-checkout-session
\* a catch block that answers success although the call failed
ServerError_Swallowed(r, msg) == Respond(r, 200, [error |-> msg])

\* a catch block that logs the error and sends no response
ServerError_Hung(r, msg) == [r EXCEPT !.pc = "hung"]

ServerError(r, msg) == Respond(r, 500, [error |-> msg])

\* stripe.checkout.sessions.create({... client_reference_id, metadata,
\* subscription_data: {metadata}}): the session the provider stores
NewSession(userId, email, priceId) ==
  [id |-> Cardinality(sessions) + 1, client_reference_id |-> userId,
   customer_email |-> email, price |-> priceId, metadata |-> MetaOf(userId),
   subscription_metadata |-> MetaOf(userId), subscription |-> 0,
   returned |-> FALSE]

\* the two checks before the provider is called; Missing when both pass
\* a validation that looks at the price only
CheckoutRejection_PriceOnly(priceId, userId, email) ==
  IF priceId \notin validPriceIds THEN "Invalid priceId" ELSE Missing

CheckoutRejection(priceId, userId, email) ==
  IF priceId = Missing \/ userId = Missing \/ email = Missing
  THEN "Missing required fields"
  ELSE IF priceId \notin validPriceIds
  THEN "Invalid priceId"
  ELSE Missing

\* Arrival, validation and the awaited stripe.checkout.sessions.create:
\* `why` is the validation's verdict, `session` what the provider is asked for.
CheckoutBegin(i, r, why, session, fails) ==
  /\ CanStart(i)
  /\ nreq' = nreq + 1 /\ UNCHANGED quota
  /\ IF why # Missing
     THEN /\ ~fails
          /\ req' = [req EXCEPT ![i] = Respond(r, 400, [error |-> why])]
          /\ UNCHANGED sessions
     ELSE IF fails
     THEN /\ req' = [req EXCEPT ![i] =
                       ServerError([r EXCEPT !.providerCalls = 1], "provider")]
          /\ UNCHANGED sessions
     ELSE /\ sessions' = sessions \cup {session}
          /\ req' = [req EXCEPT ![i] =
                       [r EXCEPT !.pc = "co_write", !.session = session.id,
                                 !.providerCalls = 1, !.wm = clock]]
  /\ UNCHANGED <<db, now, customers, subs, events, clock, writes>>

CheckoutRequest(priceId, userId, email) ==
  [Arrived EXCEPT !.kind = "checkout", !.priceId = priceId, !.userId = userId,
               !.email = email]

CheckoutStart ==
  \E i \in Slots, priceId \in PriceInputs, userId \in People \cup {Missing},
     email \in Emails \cup {Missing}, fails \in BOOLEAN :
    CheckoutBegin(i, CheckoutRequest(priceId, userId, email),
                  CheckoutRejection(priceId, userId, email),
                  NewSession(userId, email, priceId), fails)

\* an update that also marks the record as awaiting payment
CheckoutFields_Pending(sessionId) ==
  [status |-> "pending", pendingUpgrade |-> TRUE, checkoutSessionId |-> sessionId,
   lastUpdated |-> serverTimestamp]

CheckoutFields(sessionId) ==
  [pendingUpgrade |-> TRUE, checkoutSessionId |-> sessionId,
   lastUpdated |-> serverTimestamp]

\* await db.collection('users').doc(userId).update({...}), then the answer
CheckoutWrite ==
  \E i \in Slots, fails \in BOOLEAN :
    LET r == req[i]
        u == r.userId
        r1 == [r EXCEPT !.storeCalls = @ + 1] IN
    /\ r.pc = "co_write"
    /\ IF DocExists(u) /\ ~fails
       THEN /\ db' = [db EXCEPT ![u] = Merge(@, CheckoutFields(r.session))]
            /\ writes' = Logged(u, r, CheckoutFields(r.session))
            /\ now' = now + 1
            /\ req' = [req EXCEPT ![i] = Respond(r1, 200, [sessionId |-> r.session])]
            /\ sessions' = {[s EXCEPT !.returned = @ \/ s.id = r.session] : s \in sessions}
       ELSE /\ req' = [req EXCEPT ![i] = ServerError(r1, "store")]
            /\ UNCHANGED <<db, now, writes, sessions>>
    /\ UNCHANGED <<customers, subs, events, clock, nreq, quota>>

\* ------------------------------------ POST /check-subscription-status
\* Arrival and the awaited db.collection('users').doc(userId).get()
StatusStart ==
  \E i \in Slots, userId \in People \cup {Missing}, fails \in BOOLEAN :
    LET r == [Arrived EXCEPT !.kind = "status", !.userId = userId, !.person = userId] IN
    /\ CanStart(i)
    /\ nreq' = nreq + 1 /\ UNCHANGED quota
    /\ req' = [req EXCEPT ![i] =
         IF userId = Missing
         THEN Respond(r, 400, [error |-> "userId is required"])
         ELSE IF fails
         THEN ServerError([r EXCEPT !.storeCalls = 1], "store")
         ELSE IF ~DocExists(userId)
         THEN Respond([r EXCEPT !.storeCalls = 1], 404, [error |-> "User not found"])
         ELSE [r EXCEPT !.storeCalls = 1, !.pc = "st_search"]]
    /\ userId = Missing => ~fails
    /\ UNCHANGED <<db, now, customers, subs, sessions, events, clock, writes>>

\* stripe.customers.search({query: metadata['firebaseUID']:'<userId>'})
SearchByUid(userId) == IF "tagged" \in customers[userId] THEN "tagged" ELSE "none"

\* a listing that forgets the status filter
ListActive_AnyStatus(person, customer) ==
  IF subs[person].owner = customer THEN subs[person] ELSE NoSub

\* stripe.subscriptions.list({customer, status: 'active', limit: 1})
ListActive(person, customer) ==
  IF subs[person].owner = customer /\ subs[person].status = "active"
  THEN subs[person]
  ELSE NoSub

StatusSearch ==
  \E i \in Slots, fails \in BOOLEAN :
    LET r == [req[i] EXCEPT !.providerCalls = @ + 1]
        customer == SearchByUid(r.userId) IN
    /\ req[i].pc = "st_search"
    /\ req' = [req EXCEPT ![i] =
         IF fails THEN ServerError(r, "provider")
         ELSE IF customer = "none"
         THEN [r EXCEPT !.pc = "st_write", !.wm = clock]
         ELSE [r EXCEPT !.pc = "st_list", !.customer = customer]]
    /\ UNCHANGED <<db, now, customers, subs, sessions, events, clock, nreq, quota, writes>>

StatusList ==
  \E i \in Slots, fails \in BOOLEAN :
    LET r == [req[i] EXCEPT !.providerCalls = @ + 1]
        subscription == ListActive(r.person, r.customer) IN
    /\ req[i].pc = "st_list"
    /\ req' = [req EXCEPT ![i] =
         IF fails THEN ServerError(r, "provider")
         ELSE [r EXCEPT !.pc = "st_write", !.subscription = subscription,
                        !.wm = IF subscription = NoSub THEN clock ELSE subscription.ver]]
    /\ UNCHANGED <<db, now, customers, subs, sessions, events, clock, nreq, quota, writes>>

\* the fields written when an active subscription was listed
StatusActiveFields(subscription) ==
  [status |-> "active",
   tier |-> "pro",
   stripeSubscriptionId |-> subscription.id,
   currentPeriodEnd |-> DateOfSeconds(subscription.current_period_end),
   lastChecked |-> serverTimestamp]

\* the fields written when no customer or no active subscription was found
StatusInactiveFields ==
  [status |-> "inactive", tier |-> "basic", lastChecked |-> serverTimestamp]

StatusFields(subscription) ==
  IF subscription # NoSub THEN StatusActiveFields(subscription)
  ELSE StatusInactiveFields

\* an answer that reports no subscription whatever was found
StatusBody_Inactive(subscription) ==
  [active |-> FALSE, status |-> "inactive", currentPeriodEnd |-> Null,
   subscriptionId |-> Null]

StatusBody(subscription) ==
  IF subscription # NoSub
  THEN [active |-> TRUE, status |-> "active",
        currentPeriodEnd |-> subscription.current_period_end,
        subscriptionId |-> subscription.id]
  ELSE [active |-> FALSE, status |-> "inactive",
        currentPeriodEnd |-> Null, subscriptionId |-> Null]

StatusWrite ==
  \E i \in Slots, fails \in BOOLEAN :
    LET r == req[i]
        u == r.userId
        r1 == [r EXCEPT !.storeCalls = @ + 1] IN
    /\ r.pc = "st_write"
    /\ IF DocExists(u) /\ ~fails
       THEN /\ db' = [db EXCEPT ![u] = Merge(@, StatusFields(r.subscription))]
            /\ writes' = Logged(u, r, StatusFields(r.subscription))
            /\ now' = now + 1
            /\ req' = [req EXCEPT ![i] = Respond(r1, 200, StatusBody(r.subscription))]
       ELSE /\ req' = [req EXCEPT ![i] = ServerError(r1, "store")]
            /\ UNCHANGED <<db, now, writes>>
    /\ UNCHANGED <<customers, subs, sessions, events, clock, nreq, quota>>

\* ------------------------------------------ POST /cancel-subscription
NotFound(r, msg) == Respond(r, 404, [error |-> msg])

\* stripe.customers.list({email, limit: 1}): the newest customer with that
\* address; a checkout's customer is newer than a tagged one.
ListByEmail(email) ==
  LET owners == {u \in People : EmailOf[u] = email} IN
  IF owners = {} THEN [person |-> Missing, customer |-> "none"]
  ELSE LET u == CHOOSE x \in owners : TRUE IN
       IF "untagged" \in customers[u] THEN [person |-> u, customer |-> "untagged"]
       ELSE IF "tagged" \in customers[u] THEN [person |-> u, customer |-> "tagged"]
       ELSE [person |-> Missing, customer |-> "none"]

\* Arrival, the email check and the awaited stripe.customers.list
CancelStart ==
  \E i \in Slots, email \in CancelEmails \cup {Missing},
     userId \in People \cup {Missing}, fails \in BOOLEAN :
    LET r == [Arrived EXCEPT !.kind = "cancel", !.userId = userId, !.email = email]
        r1 == [r EXCEPT !.providerCalls = 1]
        hit == ListByEmail(toLowerCase[email]) IN
    /\ CanStart(i)
    /\ nreq' = nreq + 1 /\ UNCHANGED quota
    /\ email = Missing => ~fails
    /\ req' = [req EXCEPT ![i] =
         IF email = Missing
         THEN Respond(r, 400, [error |-> "Email is required"])
         ELSE IF fails THEN ServerError(r1, "provider")
         ELSE IF hit.customer # "none"
         THEN [r1 EXCEPT !.pc = "ca_list", !.person = hit.person,
                         !.customer = hit.customer]
         ELSE IF userId # Missing
         THEN [r1 EXCEPT !.pc = "ca_search"]
         ELSE NotFound(r1, "Customer not found")]
    /\ UNCHANGED <<db, now, customers, subs, sessions, events, clock, writes>>

\* no customer by email: await stripe.customers.search by firebaseUID
CancelSearch ==
  \E i \in Slots, fails \in BOOLEAN :
    LET r == [req[i] EXCEPT !.providerCalls = @ + 1]
        customer == SearchByUid(r.userId) IN
    /\ req[i].pc = "ca_search"
    /\ req' = [req EXCEPT ![i] =
         IF fails THEN ServerError(r, "provider")
         ELSE IF customer = "none" THEN NotFound(r, "Customer not found")
         ELSE [r EXCEPT !.pc = "ca_list", !.person = r.userId,
                        !.customer = customer]]
    /\ UNCHANGED <<db, now, customers, subs, sessions, events, clock, nreq, quota, writes>>

CancelListAt(pc, next) ==
  \E i \in Slots, fails \in BOOLEAN :
    LET r == [req[i] EXCEPT !.providerCalls = @ + 1]
        subscription == ListActive(r.person, r.customer) IN
    /\ req[i].pc = pc
    /\ req' = [req EXCEPT ![i] =
         IF fails THEN ServerError(r, "provider")
         ELSE IF subscription = NoSub
         THEN NotFound(r, "No active subscription found")
         ELSE [r EXCEPT !.pc = next, !.subscription = subscription]]
    /\ UNCHANGED <<db, now, customers, subs, sessions, events, clock, nreq, quota, writes>>

CancelList == CancelListAt("ca_list", "ca_update")

CancelBody(subscription) ==
  [success |-> TRUE, id |-> subscription.id,
   currentPeriodEnd |-> subscription.current_period_end,
   cancelAtPeriodEnd |-> subscription.cancel_at_period_end]

\* await stripe.subscriptions.update(id, {cancel_at_period_end: true}).  The
\* provider refuses when the subscription has ended meanwhile; a change of
\* the flag is a subscription change like any other (clock, event).
CancelUpdateAt(pc, next) ==
  \E i \in Slots, fails \in BOOLEAN :
    LET r == [req[i] EXCEPT !.providerCalls = @ + 1]
        cur == subs[r.person]
        gone == cur.id # r.subscription.id \/ cur.status = "canceled"
        changes == ~cur.cancel_at_period_end
        sub == IF changes
               THEN [cur EXCEPT !.cancel_at_period_end = TRUE, !.ver = clock + 1]
               ELSE cur
        r1 == [r EXCEPT !.subscription = sub, !.wm = sub.ver] IN
    /\ req[i].pc = pc
    /\ IF fails \/ gone
       THEN /\ req' = [req EXCEPT ![i] = ServerError(r, "provider")]
            /\ UNCHANGED <<subs, events, clock>>
       ELSE /\ subs' = [subs EXCEPT ![r.person] = sub]
            /\ events' = IF changes THEN Emit("customer.subscription.updated", sub)
                         ELSE events
            /\ clock' = IF changes THEN clock + 1 ELSE clock
            /\ req' = [req EXCEPT ![i] =
                         IF r.userId # Missing THEN [r1 EXCEPT !.pc = next]
                         ELSE Respond(r1, 200, CancelBody(sub))]
    /\ UNCHANGED <<db, now, customers, sessions, nreq, quota, writes>>

CancelUpdate == CancelUpdateAt("ca_update", "ca_write")

CancelFields(subscription) ==
  [status |-> "cancelled",
   cancelAtPeriodEnd |-> TRUE,
   canceledAt |-> serverTimestamp,
   endDate |-> DateOfSeconds(subscription.current_period_end)]

\* userId was given: await db.collection('users').doc(userId).update({...})
CancelWrite ==
  \E i \in Slots, fails \in BOOLEAN :
    LET r == req[i]
        u == r.userId
        r1 == [r EXCEPT !.storeCalls = @ + 1] IN
    /\ r.pc = "ca_write"
    /\ IF DocExists(u) /\ ~fails
       THEN /\ db' = [db EXCEPT ![u] = Merge(@, CancelFields(r.subscription))]
            /\ writes' = Logged(u, r, CancelFields(r.subscription))
            /\ now' = now + 1
            /\ req' = [req EXCEPT ![i] = Respond(r1, 200, CancelBody(r.subscription))]
       ELSE /\ req' = [req EXCEPT ![i] = ServerError(r1, "store")]
            /\ UNCHANGED <<db, now, writes>>
    /\ UNCHANGED <<customers, subs, sessions, events, clock, nreq, quota>>

\* ===================================================== earlier revisions
\* ------------------------------------------------- src/unnamed/part_001
\* /create-checkout-session without the priceId check and without
\* subscription_data; /check-subscription-status as in server.js.
Rev001_CheckoutRejection(priceId, userId, email) ==
  IF priceId = Missing \/ userId = Missing \/ email = Missing
  THEN "Missing required fields"
  ELSE Missing

\* the session carries metadata, the subscription made from it none
LegacySession(userId, email, priceId) ==
  [NewSession(userId, email, priceId) EXCEPT !.subscription_metadata = NoMeta]

Rev001_CheckoutStart ==
  \E i \in Slots, priceId \in PriceInputs, userId \in People \cup {Missing},
     email \in Emails \cup {Missing}, fails \in BOOLEAN :
    CheckoutBegin(i, CheckoutRequest(priceId, userId, email),
                  Rev001_CheckoutRejection(priceId, userId, email),
                  LegacySession(userId, email, priceId), fails)

\* ------------------------------------------------- src/unnamed/part_002
\* /create-checkout-session: the priceId check, no subscription_data
Rev002_CheckoutStart ==
  \E i \in Slots, priceId \in PriceInputs, userId \in People \cup {Missing},
     email \in Emails \cup {Missing}, fails \in BOOLEAN :
    CheckoutBegin(i, CheckoutRequest(priceId, userId, email),
                  CheckoutRejection(priceId, userId, email),
                  LegacySession(userId, email, priceId), fails)

\* /cancel-subscription by userId alone
Rev002_CancelStart ==
  \E i \in Slots, userId \in People \cup {Missing}, fails \in BOOLEAN :
    LET r == [Arrived EXCEPT !.kind = "cancel", !.userId = userId]
        r1 == [r EXCEPT !.providerCalls = 1]
        customer == IF userId = Missing THEN "none" ELSE SearchByUid(userId) IN
    /\ CanStart(i)
    /\ nreq' = nreq + 1 /\ UNCHANGED quota
    /\ userId = Missing => ~fails
    /\ req' = [req EXCEPT ![i] =
         IF userId = Missing
         THEN Respond(r, 400, [error |-> "userId is required"])
         ELSE IF fails THEN ServerError(r1, "provider")
         ELSE IF customer = "none" THEN NotFound(r1, "Customer not found")
         ELSE [r1 EXCEPT !.pc = "ca2_list", !.person = userId,
                         !.customer = customer]]
    /\ UNCHANGED <<db, now, customers, subs, sessions, events, clock, writes>>

Rev002_CancelList == CancelListAt("ca2_list", "ca2_update")

Rev002_CancelUpdate == CancelUpdateAt("ca2_update", "ca2_write")

Rev002_CancelFields ==
  [cancelAtPeriodEnd |-> TRUE, canceledAt |-> serverTimestamp]

Rev002_CancelWrite ==
  \E i \in Slots, fails \in BOOLEAN :
    LET r == req[i]
        u == r.userId
        r1 == [r EXCEPT !.storeCalls = @ + 1] IN
    /\ r.pc = "ca2_write"
    /\ IF DocExists(u) /\ ~fails
       THEN /\ db' = [db EXCEPT ![u] = Merge(@, Rev002_CancelFields)]
            /\ writes' = Logged(u, r, Rev002_CancelFields)
            /\ now' = now + 1
            /\ req' = [req EXCEPT ![i] = Respond(r1, 200, CancelBody(r.subscription))]
       ELSE /\ req' = [req EXCEPT ![i] = ServerError(r1, "store")]
            /\ UNCHANGED <<db, now, writes>>
    /\ UNCHANGED <<customers, subs, sessions, events, clock, nreq, quota>>

\* /webhook: the signature check has its own try; the userId is
\* metadata.firebaseUID, and the catch of the processing answers 500
Rev002_WebhookFailed(r, error) == ServerError(r, error)

Rev002_WebhookAfterVerify(r) ==
  LET event == r.event
      userId == event.object.metadata.firebaseUID IN
  IF IsUpsert(event.type) \/ event.type = "customer.subscription.deleted"
  THEN IF userId = Missing
       THEN Rev002_WebhookFailed(r, NoUidError)
       ELSE [r EXCEPT !.pc = "wh2_write", !.userId = userId]
  ELSE WebhookAck(r, Missing)

Rev002_WebhookReceive(r) ==
  IF ~constructEventOk(r.event, r.sig, STRIPE_WEBHOOK_SECRET)
  THEN Respond(r, 400, [error |-> "Webhook Error"])
  ELSE Rev002_WebhookAfterVerify(r)

Rev002_WebhookStart ==
  \E i \in Slots, payload \in WebhookPayloads :
    WebhookArrival(i, Rev002_WebhookReceive(WebhookRequest(payload)))

Rev002_WebhookWrite ==
  \E i \in Slots, fails \in BOOLEAN :
    WebhookWriteAt(i, "wh2_write", fails,
                   Rev002_WebhookFailed(Stored(req[i]), StoreFailure))

\* ========================================================= the programs
Next ==
  \/ CompleteCheckout
  \/ LegacyCheckout
  \/ ProviderSubscribe
  \/ ProviderUpdate
  \/ ProviderDelete
  \/ WebhookStart
  \/ WebhookSessions
  \/ WebhookWrite
  \/ CheckoutStart
  \/ CheckoutWrite
  \/ StatusStart
  \/ StatusSearch
  \/ StatusList
  \/ StatusWrite
  \/ CancelStart
  \/ CancelSearch
  \/ CancelList
  \/ CancelUpdate
  \/ CancelWrite

\* src/server.js
Spec == Init /\ [][Next]_vars

\* src/server.js when the only requests are webhook deliveries
NextWebhook ==
  \/ LegacyCheckout
  \/ ProviderSubscribe
  \/ ProviderUpdate
  \/ ProviderDelete
  \/ WebhookStart
  \/ WebhookSessions
  \/ WebhookWrite

SpecWebhook == Init /\ [][NextWebhook]_vars

\* src/server.js when the only requests are cancellations
NextCancel ==
  \/ LegacyCheckout
  \/ ProviderSubscribe
  \/ ProviderUpdate
  \/ ProviderDelete
  \/ CancelStart
  \/ CancelSearch
  \/ CancelList
  \/ CancelUpdate
  \/ CancelWrite

SpecCancel == Init /\ [][NextCancel]_vars

\* src/server.js webhooks when two persons share the deployment
SpecWebhookShared == InitShared /\ [][NextWebhook]_vars

\* src/server.js, every handler, when two persons share the deployment
NextShared ==
  \/ LegacyCheckout
  \/ ProviderSubscribe
  \/ WebhookStart
  \/ WebhookSessions
  \/ WebhookWrite
  \/ CheckoutStart
  \/ CheckoutWrite
  \/ StatusStart
  \/ StatusSearch
  \/ StatusList
  \/ StatusWrite
  \/ CancelStart
  \/ CancelSearch
  \/ CancelList
  \/ CancelUpdate
  \/ CancelWrite

SpecShared == InitShared /\ [][NextShared]_vars

\* src/server.js from a checkout to the status checks that follow it
NextConverge ==
  \/ CompleteCheckout
  \/ CheckoutStart
  \/ CheckoutWrite
  \/ WebhookStart
  \/ WebhookWrite
  \/ StatusStart
  \/ StatusSearch
  \/ StatusList
  \/ StatusWrite

SpecConverge == InitConverge /\ [][NextConverge]_vars

\* src/server.js when the only requests are checkouts
NextCheckout ==
  \/ CompleteCheckout
  \/ ProviderUpdate
  \/ CheckoutStart
  \/ CheckoutWrite

SpecCheckout == Init /\ [][NextCheckout]_vars

\* src/server.js, every handler, with subscriptions the provider holds
NextLive ==
  \/ LegacyCheckout
  \/ ProviderSubscribe
  \/ WebhookStart
  \/ WebhookSessions
  \/ WebhookWrite
  \/ CheckoutStart
  \/ CheckoutWrite
  \/ StatusStart
  \/ StatusSearch
  \/ StatusList
  \/ StatusWrite
  \/ CancelStart
  \/ CancelSearch
  \/ CancelList
  \/ CancelUpdate
  \/ CancelWrite

\* every awaited provider or store call returns or throws: the stretch of
\* the handler after the await runs.  Nothing obliges a client to send a
\* request or the provider to change a subscription.
SpecLive ==
  /\ Init
  /\ [][NextLive]_vars
  /\ WF_vars(WebhookSessions)
  /\ WF_vars(WebhookWrite)
  /\ WF_vars(CheckoutWrite)
  /\ WF_vars(StatusSearch)
  /\ WF_vars(StatusList)
  /\ WF_vars(StatusWrite)
  /\ WF_vars(CancelSearch)
  /\ WF_vars(CancelList)
  /\ WF_vars(CancelUpdate)
  /\ WF_vars(CancelWrite)

\* src/server.js when the only requests are status checks
NextStatus ==
  \/ ProviderSubscribe
  \/ ProviderUpdate
  \/ ProviderDelete
  \/ StatusStart
  \/ StatusSearch
  \/ StatusList
  \/ StatusWrite

SpecStatus == Init /\ [][NextStatus]_vars

\* src/unnamed/part_001
NextRev001 ==
  \/ CompleteCheckout
  \/ ProviderSubscribe
  \/ ProviderUpdate
  \/ ProviderDelete
  \/ Rev001_CheckoutStart
  \/ CheckoutWrite
  \/ StatusStart
  \/ StatusSearch
  \/ StatusList
  \/ StatusWrite

SpecRev001 == Init /\ [][NextRev001]_vars

\* src/unnamed/part_002
NextRev002 ==
  \/ CompleteCheckout
  \/ ProviderSubscribe
  \/ ProviderUpdate
  \/ ProviderDelete
  \/ Rev002_WebhookStart
  \/ Rev002_WebhookWrite
  \/ Rev002_CheckoutStart
  \/ CheckoutWrite
  \/ StatusStart
  \/ StatusSearch
  \/ StatusList
  \/ StatusWrite
  \/ Rev002_CancelStart
  \/ Rev002_CancelList
  \/ Rev002_CancelUpdate
  \/ Rev002_CancelWrite

SpecRev002 == Init /\ [][NextRev002]_vars

\* ============================================================== properties
WritePcs == {"wh_write", "co_write", "st_write", "ca_write", "wh2_write", "ca2_write"}

\* the fields of the record that describe the subscription (not the
\* advisory timestamps)
SubscriptionFieldNames ==
  {"status", "tier", "stripeSubscriptionId", "currentPeriodEnd",
   "cancelAtPeriodEnd", "pendingUpgrade", "checkoutSessionId"}

SubscriptionFields(doc) == [f \in SubscriptionFieldNames |-> doc[f]]

\* the record is in the state of an update: it holds every field the update sent
InStateOf(doc, fields) ==
  \A f \in (DOMAIN fields) \ TimestampFields : doc[f] = fields[f]

\* two requests ran concurrently: one arrived while the other was in flight
Concurrent(a, b) == a.n \in b.peers \/ b.n \in a.peers

Newest(a, b) == IF a.r.wm > b.r.wm THEN a ELSE b

\* the request carries the signature the provider makes for its payload
Verified(r) == r.sig = Sign(r.event, STRIPE_WEBHOOK_SECRET)

\* C1 (invariant I1): an update whose watermark is lower than the watermark
\* the record absorbed last is rejected and changes no field of any record;
\* so the watermark of a record never decreases.
C1_StaleUpdateRejected ==
  [][/\ \A i \in Slots :
          (/\ req[i].pc \in WritePcs
           /\ req'[i] # req[i]
           /\ req[i].wm < lastAppliedEventTimestamp(req[i].userId))
          => (db' = db /\ writes' = writes)
     /\ \A u \in Users :
          lastAppliedEventTimestamp(u)' >= lastAppliedEventTimestamp(u)]_vars

\* C2 (order independence): when two subscription events of one user with
\* different watermarks were processed one after the other, in either order,
\* the record is in the state of the event with the larger watermark; after
\* subscription.deleted (t3) followed by subscription.updated (t2 < t3) the
\* status is inactive.
C2_OrderIndependent ==
  \A u \in Users :
    LET log == writes[u] IN
    (/\ Len(log) = 2
     /\ log[1].r.kind = "webhook"
     /\ log[2].r.kind = "webhook"
     /\ ~Concurrent(log[1].r, log[2].r)
     /\ log[1].r.wm # log[2].r.wm
     /\ u \in UsersWithDoc)
    => InStateOf(db[u], Newest(log[1], log[2]).fields)

\* C3 (no lost update): when two concurrent requests with different
\* watermarks (webhook events or status checks) both wrote the same record,
\* the record is in the state of the one with the larger watermark, whatever
\* the interleaving.
C3_NoLostUpdate ==
  \A u \in Users :
    LET log == writes[u] IN
    (/\ Len(log) = 2
     /\ {log[1].r.kind, log[2].r.kind} \subseteq {"webhook", "status"}
     /\ Concurrent(log[1].r, log[2].r)
     /\ log[1].r.wm # log[2].r.wm
     /\ u \in UsersWithDoc)
    => InStateOf(db[u], Newest(log[1], log[2]).fields)

\* C4 (pull/push race): a status check listed the subscription as active, the
\* subscription.deleted event of that subscription was then processed and
\* acknowledged, and the status check wrote after it: the record is
\* inactive / basic.
C4_PullDoesNotOverwritePush ==
  \A u \in Users :
    LET log == writes[u] IN
    (/\ Len(log) = 2
     /\ log[1].r.kind = "webhook"
     /\ log[1].r.event.type = "customer.subscription.deleted"
     /\ log[2].r.kind = "status"
     /\ log[2].r.subscription # NoSub
     /\ log[2].r.subscription.id = log[1].r.event.object.id
     /\ log[2].r.wm < log[1].r.wm
     /\ u \in UsersWithDoc)
    => (db[u].status = "inactive" /\ db[u].tier = "basic")

\* C5 (idempotent delivery): when the same verified subscription event was
\* written twice in a row, the subscription fields of the record and its
\* watermark are what they were after the first time.
C5_IdempotentDelivery ==
  \A u \in Users :
    LET log == writes[u] IN
    (/\ Len(log) = 2
     /\ log[1].r.kind = "webhook"
     /\ log[2].r.kind = "webhook"
     /\ log[1].r.event = log[2].r.event
     /\ u \in UsersWithDoc)
    => (/\ SubscriptionFields(db[u]) = SubscriptionFields(log[1].after)
        /\ lastAppliedEventTimestamp(u) = log[1].r.wm)

C5_Witness ==
  \E u \in UsersWithDoc :
    /\ Len(writes[u]) = 2
    /\ writes[u][1].r.kind = "webhook"
    /\ writes[u][2].r.kind = "webhook"
    /\ writes[u][1].r.event = writes[u][2].r.event
    /\ writes[u][1].r.event.type = "customer.subscription.updated"
    /\ \E i \in Slots : req[i].pc = "done" /\ req[i].n = writes[u][2].r.n

\* C6 (invariant I2): in every record tier is pro exactly when status is
\* active or canceling, and basic otherwise.
C6_TierDerivedFromStatus ==
  \A u \in UsersWithDoc :
    /\ db[u].tier \in {"pro", "basic"}
    /\ db[u].tier = "pro" <=> db[u].status \in {"active", "canceling"}

\* C7 (invariant I3): in every record stripeSubscriptionId is non-null
\* exactly when status is active or canceling; a record that a status check
\* moved to inactive holds no subscription id.
C7_SubscriptionIdBound ==
  \A u \in UsersWithDoc :
    db[u].stripeSubscriptionId # Null <=> db[u].status \in {"active", "canceling"}

\* C8 (plan allow-list): a create-checkout-session request whose priceId is
\* not one of the values of PRICE_IDS is answered 400 at once, creates no
\* checkout session at the provider and writes no record.
C8_UnlistedPriceRejected ==
  /\ \A i \in Slots :
       (req[i].kind = "checkout" /\ req[i].priceId \notin validPriceIds)
       => (/\ req[i].pc = "done"
           /\ req[i].code = 400
           /\ req[i].providerCalls = 0
           /\ req[i].storeCalls = 0)
  /\ \A s \in sessions : s.price \in validPriceIds

\* C9 (authenticity gate): a webhook request whose signature does not verify
\* is answered 400, reads and writes nothing in the store, calls the provider
\* never, and changes no record.
C9_UnverifiedRejected ==
  /\ [](\A i \in Slots :
          (req[i].kind = "webhook" /\ ~Verified(req[i]))
          => (/\ req[i].pc = "done"
              /\ req[i].code = 400
              /\ req[i].storeCalls = 0
              /\ req[i].providerCalls = 0))
  /\ [][\A i \in Slots :
          (req'[i] # req[i] /\ req'[i].kind = "webhook" /\ ~Verified(req'[i]))
          => (db' = db /\ now' = now /\ writes' = writes)]_vars

C9_Witness ==
  \E i \in Slots :
    /\ req[i].kind = "webhook"
    /\ ~Verified(req[i])
    /\ req[i].event.object.metadata.firebaseUID \in UsersWithDoc
    /\ req[i].pc = "done"
    /\ req[i].code = 400

\* C10 (acknowledgment): once the signature verified, the webhook is answered
\* 200 with received: true, for every event type and also when the processing
\* fails; the failure is reported in the body only.
C10_AlwaysAcknowledged ==
  \A i \in Slots :
    (req[i].kind = "webhook" /\ Verified(req[i]) /\ req[i].pc = "done")
    => (req[i].code = 200 /\ req[i].body.received)

\* the update a record absorbed last
LastWrite(u) == writes[u][Len(writes[u])]

\* C11 (checkout binding): once create-checkout-session has answered 200 for
\* user u, and as long as no other update has followed, u's record exists,
\* its status is pending and its checkoutSessionId is the session id that
\* was returned to the caller.
C11_CheckoutBindsPending ==
  /\ \A i \in Slots :
       (req[i].kind = "checkout" /\ req[i].pc = "done" /\ req[i].code = 200)
       => req[i].userId \in UsersWithDoc
  /\ \A u \in Users :
       (Len(writes[u]) > 0 /\ LastWrite(u).r.kind = "checkout")
       => /\ u \in UsersWithDoc
          /\ db[u].status = "pending"
          /\ db[u].checkoutSessionId = LastWrite(u).r.session

\* C12 (checkout resolution): when a record with a pending checkout then
\* absorbs the subscription.created event of that user, with a newer
\* watermark, it becomes active / pro with the subscription id of the event,
\* and the pending marker (pendingUpgrade, checkoutSessionId) is cleared.
C12_CheckoutResolved ==
  \A u \in UsersWithDoc :
    LET log == writes[u] IN
    (/\ Len(log) = 2
     /\ log[1].r.kind = "checkout"
     /\ log[2].r.kind = "webhook"
     /\ log[2].r.event.type = "customer.subscription.created"
     /\ log[2].r.wm > log[1].r.wm)
    => /\ db[u].status = "active"
       /\ db[u].tier = "pro"
       /\ db[u].stripeSubscriptionId = log[2].r.event.object.id
       /\ db[u].pendingUpgrade = FALSE
       /\ db[u].checkoutSessionId = Null

\* the customer a cancel request resolved has an active subscription
CancelTargetActive(r) ==
  /\ r.person # Missing
  /\ subs[r.person].status = "active"
  /\ subs[r.person].owner = r.customer

CancelLookupPcs == {"ca_search", "ca_list", "ca2_list"}

BoundCustomerActive(u) ==
  /\ "tagged" \in customers[u]
  /\ subs[u].owner = "tagged"
  /\ subs[u].status = "active"

\* C14 (cancel by userId): a cancel-subscription request that carries only
\* userId, for a user whose bound customer has an active subscription, is not
\* turned away (400 or 404); and a cancel answered 200 returns the
\* subscription id, its period end and cancelAtPeriodEnd = true.
C14_CancelByUserId ==
  /\ [][\A i \in Slots :
          (/\ Free(i)
           /\ req'[i] # req[i]
           /\ req'[i].kind = "cancel"
           /\ req'[i].email = Missing
           /\ req'[i].userId # Missing
           /\ BoundCustomerActive(req'[i].userId))
          => ~(req'[i].pc = "done" /\ req'[i].code \in {400, 404})]_vars
  /\ [](\A i \in Slots :
          (req[i].kind = "cancel" /\ req[i].pc = "done" /\ req[i].code = 200)
          => (/\ req[i].body.id = req[i].subscription.id
              /\ req[i].body.currentPeriodEnd = req[i].subscription.current_period_end
              /\ req[i].body.cancelAtPeriodEnd = TRUE))

\* C15 (cancel flag): in every record cancelAtPeriodEnd is true exactly when
\* status is canceling (and then tier is pro).
C15_CancelFlagIffCanceling ==
  \A u \in UsersWithDoc :
    /\ db[u].cancelAtPeriodEnd = TRUE <=> db[u].status = "canceling"
    /\ db[u].cancelAtPeriodEnd = TRUE => db[u].tier = "pro"

StatusEnum == {"none", "pending", "active", "canceling", "inactive"}

\* C16 (status enum): the status of every record is one of none, pending,
\* active, canceling, inactive.
C16_StatusInEnum == \A u \in UsersWithDoc : db[u].status \in StatusEnum

\* C17 (absent snapshot, pull path): when the update a record absorbed last
\* is that of a status check which found no customer or no active
\* subscription, the record is inactive / basic with stripeSubscriptionId
\* null, currentPeriodEnd null and cancelAtPeriodEnd false.
C17_StatusCheckClears ==
  \A u \in UsersWithDoc :
    (/\ Len(writes[u]) > 0
     /\ LastWrite(u).r.kind = "status"
     /\ LastWrite(u).r.subscription = NoSub)
    => /\ db[u].status = "inactive"
       /\ db[u].tier = "basic"
       /\ db[u].stripeSubscriptionId = Null
       /\ db[u].currentPeriodEnd = Null
       /\ db[u].cancelAtPeriodEnd = FALSE

\* C18 (deleted event): when the update a record absorbed last is that of a
\* verified subscription.deleted event, the record is inactive / basic with
\* stripeSubscriptionId null, currentPeriodEnd null and cancelAtPeriodEnd
\* false; and a record that absorbed an update is still there.
C18_DeletedProjection ==
  \A u \in Users :
    /\ Len(writes[u]) > 0 => u \in UsersWithDoc
    /\ (/\ Len(writes[u]) > 0
        /\ LastWrite(u).r.kind = "webhook"
        /\ LastWrite(u).r.event.type = "customer.subscription.deleted")
       => /\ Verified(LastWrite(u).r)
          /\ db[u].status = "inactive"
          /\ db[u].tier = "basic"
          /\ db[u].stripeSubscriptionId = Null
          /\ db[u].currentPeriodEnd = Null
          /\ db[u].cancelAtPeriodEnd = FALSE

C18_Witness ==
  \E u \in UsersWithDoc :
    /\ Len(writes[u]) = 2
    /\ writes[u][1].after.status = "active"
    /\ writes[u][1].after.cancelAtPeriodEnd = TRUE
    /\ writes[u][2].r.kind = "webhook"
    /\ writes[u][2].r.event.type = "customer.subscription.deleted"
    /\ db[u].status = "inactive"

StatusTransitions ==
  {<<"none", "pending">>, <<"pending", "active">>, <<"active", "canceling">>,
   <<"canceling", "active">>, <<"active", "inactive">>,
   <<"canceling", "inactive">>}

\* C19 (status state machine): every change of the status of a record is one
\* of none -> pending, pending -> active, active -> canceling,
\* canceling -> active, active -> inactive, canceling -> inactive.
C19_StatusStateMachine ==
  [][\A u \in UsersWithDoc :
       (u \in UsersWithDoc' /\ db'[u].status # db[u].status)
       => <<db[u].status, db'[u].status>> \in StatusTransitions]_vars

\* no userId can be determined for the event: its subscription names none
\* and, for created/updated, no checkout session is that of the subscription
Unattributable(event) ==
  IF IsUpsert(event.type)
  THEN /\ Or(event.object.metadata.userId, event.object.metadata.firebaseUID) = Missing
       /\ \A s \in sessions : s.subscription # event.object.id
  ELSE /\ event.type = "customer.subscription.deleted"
       /\ event.object.metadata.firebaseUID = Missing

\* C20 (unattributable event): a verified subscription created / updated /
\* deleted event for which no userId can be determined never reaches the
\* store (no record is read or written), and is acknowledged 200 with
\* received: true and the failure in the body.
C20_UnattributableEvent ==
  \A i \in Slots :
    (req[i].kind = "webhook" /\ Verified(req[i]) /\ Unattributable(req[i].event))
    => /\ req[i].storeCalls = 0
       /\ req[i].userId = Missing
       /\ req[i].pc \in {"wh_sessions", "done"}
       /\ req[i].pc = "done"
          => /\ req[i].code = 200
             /\ req[i].body.received
             /\ req[i].body.error = NoUidError

C20_Witness ==
  \E i \in Slots :
    /\ req[i].kind = "webhook"
    /\ Verified(req[i])
    /\ Unattributable(req[i].event)
    /\ IsUpsert(req[i].event.type)
    /\ req[i].providerCalls = 1
    /\ req[i].pc = "done"
    /\ req[i].code = 200
    /\ UsersWithDoc # {}


\* ---------------------------------------------------------------------
\* C21  A verified webhook event whose type is none of subscription
\* created / updated / deleted is acknowledged with 200 {received: true},
\* is not reported as an error, and touches neither the store nor the
\* provider: the request ends at its arrival, with no user resolved and
\* no call made, so every record is as it was.
HandledEventTypes ==
  {"customer.subscription.created", "customer.subscription.updated",
   "customer.subscription.deleted"}

C21_UnhandledTypeAcknowledged ==
  \A i \in Slots :
    LET r == req[i] IN
    (r.kind = "webhook" /\ Verified(r) /\ r.event.type \notin HandledEventTypes)
      => /\ r.pc = "done"
         /\ r.code = 200
         /\ r.body = [received |-> TRUE, error |-> Missing]
         /\ r.userId = Missing
         /\ r.storeCalls = 0
         /\ r.providerCalls = 0
         /\ \A u \in Users : \A k \in 1..Len(writes[u]) : writes[u][k].r.n # r.n

C21_Witness ==
  \E i \in Slots :
    /\ req[i].kind = "webhook"
    /\ Verified(req[i])
    /\ req[i].event.type \notin HandledEventTypes
    /\ req[i].pc = "done"
    /\ UsersWithDoc # {}


\* ---------------------------------------------------------------------
\* C22  No event is lost to a transient failure: a verified subscription
\* event whose store update failed, and which the handler answered with
\* 200 (so the provider will not deliver it again), is either put aside
\* durably for a retry or is reflected by the record of its user.

\* the events the handler has put aside durably: the catch block writes a
\* log line and answers, it stores nothing
DeadLetters == {}

\* the request was answered 200 although the update of an existing record failed
AcknowledgedUnapplied(r) ==
  /\ r.kind = "webhook"
  /\ r.pc = "done"
  /\ Verified(r)
  /\ r.event.type \in HandledEventTypes
  /\ r.userId \in UsersWithDoc
  /\ r.code = 200
  /\ r.body.error = StoreFailure

C22_NoEventLost ==
  \A i \in Slots :
    AcknowledgedUnapplied(req[i])
      => \/ req[i].event \in DeadLetters
         \/ InStateOf(db[req[i].userId], WebhookFields(req[i].event))


\* ---------------------------------------------------------------------
\* C23  Upstream failure leaves the record intact: when a provider call or
\* a store call fails inside create-checkout-session, check-subscription-
\* status or cancel-subscription, the request ends with status 500 and has
\* written nothing: no update of any record is this request's.  Conversely
\* a request that ended with 500 has no update to its name.
ClientKinds == {"checkout", "status", "cancel"}

\* the answers of a request one of whose calls threw
UpstreamFailures == {[error |-> "provider"], [error |-> "store"]}

WroteNothing(r) ==
  \A u \in Users : \A k \in 1..Len(writes[u]) : writes[u][k].r.n # r.n

C23_FailureLeavesRecordIntact ==
  \A i \in Slots :
    LET r == req[i] IN
    (r.kind \in ClientKinds /\ r.pc = "done")
      => /\ r.body \in UpstreamFailures => (r.code = 500 /\ WroteNothing(r))
         /\ r.code >= 500 => (r.body \in UpstreamFailures /\ WroteNothing(r))

\* a cancellation whose provider call succeeded and whose store update threw
C23_Witness ==
  \E i \in Slots :
    /\ req[i].kind = "cancel"
    /\ req[i].pc = "done"
    /\ req[i].body = [error |-> "store"]
    /\ req[i].userId \in UsersWithDoc
    /\ req[i].providerCalls >= 3
    /\ req[i].storeCalls = 1


\* ---------------------------------------------------------------------
\* C24  A status check that names a user without a record is answered 404
\* after the one read of the store (or 500 when that read throws): it calls
\* the provider not at all, and no record is created or written for that
\* user.
C24_UnknownUserNotFound ==
  /\ \A i \in Slots :
       LET r == req[i] IN
       (r.kind = "status" /\ r.userId # Missing /\ r.userId \notin UsersWithDoc)
         => /\ r.pc = "done"
            /\ r.code = 404 \/ (r.code = 500 /\ r.body = [error |-> "store"])
            /\ r.providerCalls = 0
            /\ r.storeCalls = 1
  /\ \A u \in Users \ UsersWithDoc : Len(writes[u]) = 0

C24_Witness ==
  \E i \in Slots :
    /\ req[i].kind = "status"
    /\ req[i].userId \in Users \ UsersWithDoc
    /\ req[i].code = 404
    /\ \E u \in Users : subs[u].status = "active"


\* ---------------------------------------------------------------------
\* C25  Per-user isolation: every update of a record was made by a request
\* for or bound to the user of that record, and a record changes by such
\* updates only; in every interleaving the records of all other users are
\* as they were.

\* the user a request is for (the userId of its body) or is bound to (the
\* metadata of the event's subscription, else the client_reference_id of
\* the checkout session of that subscription)
BoundUser(r) ==
  IF r.kind # "webhook" THEN r.userId
  ELSE LET o == r.event.object
           named == IF r.event.type = "customer.subscription.deleted"
                    THEN o.metadata.firebaseUID
                    ELSE IF o.metadata.userId # Missing THEN o.metadata.userId
                    ELSE o.metadata.firebaseUID
           refs == {s.client_reference_id : s \in {x \in sessions : x.subscription = o.id}} IN
       IF named # Missing \/ r.event.type = "customer.subscription.deleted" THEN named
       ELSE IF Cardinality(refs) = 1 THEN CHOOSE u \in refs : TRUE
       ELSE Missing

C25_PerUserIsolation ==
  \A v \in Users :
    /\ \A k \in 1..Len(writes[v]) : BoundUser(writes[v][k].r) = v
    /\ v \in UsersWithDoc =>
         db[v] = IF Len(writes[v]) = 0 THEN ZeroDoc ELSE LastWrite(v).after

\* a cancellation for u1 that found its subscription under the address of
\* u2 has updated the record of u1, and the record of u2 was never written
C25_Witness ==
  /\ UsersWithDoc = Users
  /\ \E i \in Slots :
       /\ req[i].kind = "cancel"
       /\ req[i].pc = "done"
       /\ req[i].code = 200
       /\ req[i].userId = "u1"
       /\ req[i].person = "u2"
  /\ Len(writes["u2"]) = 0
  /\ db["u2"] = ZeroDoc
  /\ db["u1"].status = "cancelled"


\* ---------------------------------------------------------------------
\* C26  Pull/push agreement: for one provider snapshot of a user's
\* subscription, a status check and a subscription created/updated webhook
\* leave the same status, tier, subscription id, period end,
\* cancel-at-period-end flag and pending marker in the record.  So once a
\* status check has written a snapshot, applying the webhook's fields for
\* that same snapshot changes none of them.
C26_PullPushAgree ==
  \A u \in UsersWithDoc :
    \A k \in 1..Len(writes[u]) :
      LET w == writes[u][k] IN
      (w.r.kind = "status" /\ w.r.subscription # NoSub)
        => SubscriptionFields(w.after)
             = SubscriptionFields(Merge(w.after, SubscriptionUpsertFields(w.r.subscription)))


\* ---------------------------------------------------------------------
\* C27  Binding recovery: a verified subscription created/updated event
\* whose metadata names no user, but whose subscription has a checkout
\* session with client_reference_id u, is applied to the record of u and to
\* no other: the handler asks the provider for the session, resolves u,
\* and its one update goes to u; it ends without update only when the
\* listing or the store failed.

\* the users whose checkout sessions led to the subscription of the event
SessionOwners(event) ==
  {s.client_reference_id : s \in {x \in sessions : x.subscription = event.object.id}}

Recoverable(r) ==
  /\ r.kind = "webhook"
  /\ Verified(r)
  /\ r.event.type \in {"customer.subscription.created", "customer.subscription.updated"}
  /\ r.event.object.metadata.userId = Missing
  /\ r.event.object.metadata.firebaseUID = Missing
  /\ SessionOwners(r.event) # {}

C27_BindingRecovery ==
  \A i \in Slots :
    LET r == req[i] IN
    Recoverable(r) =>
      /\ r.pc \in {"wh_sessions", "wh_write", "done"}
      /\ r.pc # "wh_sessions" => r.providerCalls = 1
      /\ r.userId # Missing => SessionOwners(r.event) = {r.userId}
      /\ r.pc = "wh_write" => r.userId # Missing
      /\ \A v \in Users \ SessionOwners(r.event) :
           \A k \in 1..Len(writes[v]) : writes[v][k].r.n # r.n
      /\ r.pc = "done" =>
           /\ r.code = 200
           /\ r.body.error \in {Missing, NoUidError, StoreFailure}
           /\ r.body.error = NoUidError => (r.userId = Missing /\ r.storeCalls = 0)
           /\ r.body.error = Missing =>
                /\ r.userId # Missing
                /\ r.storeCalls = 1
                /\ \/ \E k \in 1..Len(writes[r.userId]) : writes[r.userId][k].r.n = r.n
                   \/ Len(writes[r.userId]) = 2

\* the event of a session of u2 was applied to u2 while u1 has a session
\* and an untouched record
C27_Witness ==
  \E i \in Slots :
    /\ Recoverable(req[i])
    /\ req[i].pc = "done"
    /\ req[i].body.error = Missing
    /\ req[i].userId = "u2"
    /\ db["u2"].stripeSubscriptionId = req[i].event.object.id
    /\ db["u1"] = ZeroDoc
    /\ \E s \in sessions : s.client_reference_id = "u1" /\ s.subscription # 0


\* ---------------------------------------------------------------------
\* C28  Convergence after checkout: user u completed a checkout session
\* that create-checkout-session made, the provider holds the resulting
\* active subscription, and its customer.subscription.created event was
\* applied to u's record.  A status check that arrives afterwards resolves
\* the customer of that subscription and leaves the record active / pro;
\* it does not find no customer and write inactive / basic.

\* s is a session of create-checkout-session for u that was paid: the
\* handler answered with it and it carries the subscription metadata
PaidServerSession(s, u) ==
  /\ s.returned
  /\ s.client_reference_id = u
  /\ s.subscription_metadata = MetaOf(u)
  /\ s.subscription # 0

C28_ConvergesAfterCheckout ==
  \A u \in UsersWithDoc :
    (Len(writes[u]) = 2 /\ subs[u].status = "active")
      => LET push == writes[u][1]
             pull == writes[u][2] IN
         ( /\ push.r.kind = "webhook"
           /\ push.r.event.type = "customer.subscription.created"
           /\ push.r.event.object.id = subs[u].id
           /\ \E s \in sessions : PaidServerSession(s, u) /\ s.subscription = subs[u].id
           /\ pull.r.kind = "status"
           /\ pull.r.n > push.r.n
           /\ ~Concurrent(push.r, pull.r) )
         => /\ pull.r.customer = subs[u].owner
            /\ pull.after.status = "active"
            /\ pull.after.tier = "pro"


\* ---------------------------------------------------------------------
\* C29  Cancellation identity resolution: a cancel-subscription request
\* carries a userId and an email, and a provider customer tagged with that
\* userId exists.  Then the subscription the request cancels is one of that
\* tagged customer; the address decides only when no tagged customer exists.
C29_CancelResolvesTaggedCustomer ==
  \A i \in Slots :
    LET r == req[i] IN
    ( /\ r.kind = "cancel"
      /\ r.pc = "ca_write"
      /\ r.userId \in People
      /\ r.email # Missing
      /\ "tagged" \in customers[r.userId] )
    => /\ r.person = r.userId
       /\ r.customer = "tagged"
       /\ r.subscription.owner = "tagged"


\* ---------------------------------------------------------------------
\* C30  A create-checkout-session request that lacks priceId, userId or
\* email is answered 400 at its arrival: it asks the provider for no
\* session and writes no record, so every session the provider holds
\* carries all three.
LacksField(r) == r.priceId = Missing \/ r.userId = Missing \/ r.email = Missing

C30_MissingFieldRejected ==
  /\ \A i \in Slots :
       (req[i].kind = "checkout" /\ LacksField(req[i]))
       => /\ req[i].pc = "done"
          /\ req[i].code = 400
          /\ req[i].body = [error |-> "Missing required fields"]
          /\ req[i].session = 0
          /\ req[i].providerCalls = 0
          /\ req[i].storeCalls = 0
          /\ WroteNothing(req[i])
  /\ \A s \in sessions :
       /\ s.price # Missing
       /\ s.client_reference_id # Missing
       /\ s.customer_email # Missing

\* a request with a listed price and an address but no userId was refused
\* while another checkout of the same run was served
C30_Witness ==
  /\ \E i \in Slots :
       /\ req[i].kind = "checkout"
       /\ req[i].pc = "done"
       /\ req[i].priceId \in validPriceIds
       /\ req[i].email # Missing
       /\ req[i].userId = Missing
       /\ req[i].code = 400
  /\ sessions # {}


\* ---------------------------------------------------------------------
\* C31  create-checkout-session writes the pending marker, the checkout
\* session id and lastUpdated and nothing else: the status, tier,
\* subscription id, period end and cancel-at-period-end flag of the record
\* are after its update what they were before it, so an active / pro user
\* stays active / pro when starting another checkout.
EntitlementFieldNames ==
  {"status", "tier", "stripeSubscriptionId", "currentPeriodEnd", "cancelAtPeriodEnd"}

Entitlement(doc) == [f \in EntitlementFieldNames |-> doc[f]]

\* the record as it was before the k-th logged update of u, when the log
\* still holds every update up to that one
BeforeWrite(u, k) == IF k = 1 THEN ZeroDoc ELSE writes[u][k - 1].after

C31_CheckoutKeepsEntitlement ==
  \A u \in UsersWithDoc :
    \A k \in 1..Len(writes[u]) :
      LET w == writes[u][k] IN
      w.r.kind = "checkout"
        => /\ DOMAIN w.fields = {"pendingUpgrade", "checkoutSessionId", "lastUpdated"}
           /\ k = 2 => Entitlement(w.after) = Entitlement(BeforeWrite(u, k))
           /\ (k = 1 /\ Len(writes[u]) = 1)
                => Entitlement(w.after) = Entitlement(BeforeWrite(u, k))

\* an active / pro user started another checkout and is still active / pro
C31_Witness ==
  \E u \in UsersWithDoc :
    /\ Len(writes[u]) = 2
    /\ writes[u][1].after.status = "active"
    /\ writes[u][1].after.tier = "pro"
    /\ writes[u][2].r.kind = "checkout"
    /\ db[u] = writes[u][2].after
    /\ db[u].status = "active"
    /\ db[u].tier = "pro"
    /\ db[u].pendingUpgrade


\* ---------------------------------------------------------------------
\* C32  Cancel atomicity across provider and store: a cancel-subscription
\* request that ends with an error response has not set
\* cancel_at_period_end on the provider's subscription; the provider is not
\* changed by a request that then fails to write the record.

\* the request's stripe.subscriptions.update succeeded and changed the
\* subscription: the provider emitted the updated event of that change
MarkedAtProvider(r) ==
  /\ r.kind = "cancel"
  /\ r.subscription # NoSub
  /\ r.subscription.cancel_at_period_end
  /\ r.wm = r.subscription.ver
  /\ \E e \in events :
       /\ e.type = "customer.subscription.updated"
       /\ e.object = r.subscription

C32_CancelAtomic ==
  \A i \in Slots :
    (req[i].kind = "cancel" /\ req[i].pc = "done" /\ req[i].code >= 400)
      => ~MarkedAtProvider(req[i])


\* ---------------------------------------------------------------------
\* C33  The answer of a status check agrees with what that request wrote:
\* it says active: true, status active exactly when it wrote status active,
\* tier pro and the subscription id it returns; it says active: false,
\* status inactive, currentPeriodEnd null exactly when it wrote status
\* inactive, tier basic; and it answers 200 only after its read and its
\* update of the record, and wrote nothing when it answers anything else.
AnswersActive(body, fields) ==
  /\ body.active
  /\ body.status = "active"
  /\ fields.status = "active"
  /\ fields.tier = "pro"
  /\ "stripeSubscriptionId" \in DOMAIN fields
  /\ fields.stripeSubscriptionId = body.subscriptionId
  /\ fields.currentPeriodEnd = DateOfSeconds(body.currentPeriodEnd)

AnswersInactive(body, fields) ==
  /\ ~body.active
  /\ body.status = "inactive"
  /\ body.currentPeriodEnd = Null
  /\ fields.status = "inactive"
  /\ fields.tier = "basic"
  /\ "stripeSubscriptionId" \notin DOMAIN fields

C33_StatusAnswerMatchesWrite ==
  \A i \in Slots :
    LET r == req[i] IN
    (r.kind = "status" /\ r.pc = "done") =>
      /\ r.code # 200 => WroteNothing(r)
      /\ r.code = 200 =>
           /\ r.storeCalls = 2
           /\ r.userId \in UsersWithDoc
           /\ \/ \E k \in 1..Len(writes[r.userId]) : writes[r.userId][k].r.n = r.n
              \/ Len(writes[r.userId]) = 2
           /\ \A u \in Users : \A k \in 1..Len(writes[u]) :
                writes[u][k].r.n = r.n =>
                  /\ u = r.userId
                  /\ \/ AnswersActive(r.body, writes[u][k].fields)
                     \/ AnswersInactive(r.body, writes[u][k].fields)

\* one status check answered active and another inactive in the same run
C33_Witness ==
  \E i, j \in Slots :
    /\ req[i].kind = "status" /\ req[i].pc = "done" /\ req[i].code = 200
    /\ req[j].kind = "status" /\ req[j].pc = "done" /\ req[j].code = 200
    /\ req[i].body.active
    /\ ~req[j].body.active
    /\ \E k \in 1..Len(writes[req[i].userId]) :
         /\ writes[req[i].userId][k].r.n = req[i].n
         /\ writes[req[i].userId][k].fields.status = "active"


\* ---------------------------------------------------------------------
\* C34  Every request to create-checkout-session, check-subscription-
\* status, cancel-subscription and webhook receives exactly one response
\* on every path, provided the provider and store calls return or throw:
\* a request in flight is eventually answered, an answered request has a
\* status code, and its answer is never replaced (its slot changes only by
\* the arrival of a later request).
InFlight(r) == r.pc \notin {"idle", "done"}

C34_EveryRequestAnswered ==
  /\ \A i \in Slots : InFlight(req[i]) ~> (req[i].pc = "done")
  /\ [](\A i \in Slots : req[i].pc = "done" => req[i].code \in {200, 400, 404, 500})
  /\ [][\A i \in Slots :
          (req[i].pc = "done" /\ req'[i] # req[i]) => req'[i].n > req[i].n]_vars

\* a cancellation whose store update threw and a webhook whose event named
\* no user have both been answered
C34_Witness ==
  \E i, j \in Slots :
    /\ req[i].kind = "cancel"
    /\ req[i].pc = "done"
    /\ req[i].code = 500
    /\ req[i].storeCalls = 1
    /\ req[j].kind = "webhook"
    /\ req[j].pc = "done"
    /\ req[j].body.error = NoUidError

====
